---- MODULE Spec2Model ----
(***************************************************************************)
(* A model of the todotxt crate: the line grammar (priority, dates, state, *)
(* task), the task accessors, the lazy tag scanner, the ordering of        *)
(* priorities and the line iterator.                                       *)
(*                                                                         *)
(* Text is a sequence of characters; a character is a one-character string *)
(* ("x", " ", "2"), except "U+00E9" (e acute), which stands for one        *)
(* character whose UTF-8 encoding is two bytes long.                       *)
(***************************************************************************)
EXTENDS Integers, Sequences, FiniteSets, Bags, TLC

VARIABLES
    text,      \* parser input: the text tasks() is called on
    lines,     \* Iter.lines: the lines the iterator has not consumed yet
    calls,     \* the calls made on the current iterator and what each returned
    prev,      \* the calls made on the iterator of the previous tasks() call
    runs,      \* how many times tasks() was called on text
    line,      \* a trimmed, non-empty line handed to parse::<Task>
    task,      \* what parse::<Task>(line) returned, an Option<Task>
    view,      \* what the accessors of that task returned
    pc,        \* position of the single-line run: "start", "parsed", "viewed"
    data,      \* Tags.data: the description being scanned
    iter,      \* Tags.iter: the number of characters CharIndices has yielded
    found,     \* the tags Tags::next has returned so far
    status,    \* of the scan: "scanning", "done" (next gave None), "panicked"
    lhs, rhs,  \* two priorities
    ord,       \* what comparing lhs with rhs returned
    pieces,    \* ParallelIter.lines: the runs of lines no worker has done yet
    sink       \* the tasks the workers have handed to the consumer, a bag

vars == <<text, lines, calls, prev, runs, line, task, view, pc,
          data, iter, found, status, lhs, rhs, ord, pieces, sink>>

(***************************************************************************)
(* Bounds of the model.                                                    *)
(***************************************************************************)
MaxTokens == 4
MaxLines == 3
MaxCalls == 4
MaxRuns == 2
MaxWords == 3

(***************************************************************************)
(* Option<T>: None is the empty sequence, Some(v) the one-element one.     *)
(***************************************************************************)
None == <<>>
Some(v) == <<v>>
IsSome(o) == o # <<>>
Unwrap(o) == o[1]

(***************************************************************************)
(* Characters.                                                             *)
(***************************************************************************)
EAcute == "U+00E9"
Nbsp == "U+00A0"

\* bytes of the UTF-8 encoding of a character
Utf8Len(c) == IF c \in {EAcute, Nbsp} THEN 2 ELSE 1

\* char::is_whitespace (Unicode White_Space), over the model's characters
char_is_whitespace(c) == c \in {" ", "\t", "\n", "\r", Nbsp}

Digits == <<"0", "1", "2", "3", "4", "5", "6", "7", "8", "9">>
IsDigit(c) == \E k \in 1..10 : Digits[k] = c
DigitVal(c) == (CHOOSE k \in 1..10 : Digits[k] = c) - 1

Letters == <<"A", "B", "C", "D", "E", "F", "G", "H", "I", "J", "K", "L", "M",
             "N", "O", "P", "Q", "R", "S", "T", "U", "V", "W", "X", "Y", "Z">>

\* the Priority enum; `p as usize` is the position in the declaration
Priority == {Letters[k] : k \in 1..26}
Discriminant(p) == (CHOOSE k \in 1..26 : Letters[k] = p) - 1

(***************************************************************************)
(* nom 4 results over &str input. A &str is never "at eof", so a parser    *)
(* that runs out of input answers Incomplete, not Error.                   *)
(***************************************************************************)
Ok(rest, out) == [kind |-> "Ok", rest |-> rest, out |-> out]
ErrError == [kind |-> "Error"]
ErrIncomplete == [kind |-> "Incomplete"]
IsOk(r) == r.kind = "Ok"

\* char!(c)
char(c, i) ==
    IF i = <<>> THEN ErrIncomplete
    ELSE IF Head(i) = c THEN Ok(Tail(i), c)
    ELSE ErrError

\* the index of the first character of i that is not in set, 0 when none
FirstNotIn(set, i) ==
    IF \E k \in 1..Len(i) : i[k] \notin set
    THEN CHOOSE k \in 1..Len(i) : i[k] \notin set /\ \A j \in 1..(k - 1) : i[j] \in set
    ELSE 0

\* nom::space: one or more of ' ' and '\t' (split_at_position1)
space(i) ==
    LET k == FirstNotIn({" ", "\t"}, i)
    IN  IF k = 0 THEN ErrIncomplete
        ELSE IF k = 1 THEN ErrError
        ELSE Ok(SubSeq(i, k, Len(i)), SubSeq(i, 1, k - 1))

\* nom::sp, the separator of ws!: zero or more of " \t\r\n"
sp(i) ==
    LET k == FirstNotIn({" ", "\t", "\r", "\n"}, i)
    IN  IF k = 0 THEN ErrIncomplete
        ELSE Ok(SubSeq(i, k, Len(i)), SubSeq(i, 1, k - 1))

\* take!(n): n characters
take(n, i) ==
    IF Len(i) < n THEN ErrIncomplete
    ELSE Ok(SubSeq(i, n + 1, Len(i)), SubSeq(i, 1, n))

\* opt!: Error becomes None at the same input i; Incomplete goes through
opt(r, i) ==
    IF IsOk(r) THEN Ok(r.rest, Some(r.out))
    ELSE IF r.kind = "Error" THEN Ok(i, None)
    ELSE r

\* complete!: Incomplete becomes Error
complete_m(r) == IF r.kind = "Incomplete" THEN ErrError ELSE r

\* the result r of a parser, with the output replaced by out
WithOutput(r, out) == IF IsOk(r) THEN Ok(r.rest, out) ELSE r

\* terminated!(first, second), r the result of first: the output of first
terminated(r, second(_)) ==
    IF IsOk(r) THEN WithOutput(second(r.rest), r.out) ELSE r

\* preceded!(first, second), r the result of first: the output of second
preceded(r, second(_)) == IF IsOk(r) THEN second(r.rest) ELSE r

\* map!(parser, f), r the result of parser
map(r, f(_)) == IF IsOk(r) THEN Ok(r.rest, f(r.out)) ELSE r

\* map_opt!(parser, f) and flat_map!(parser, parse_to!(..)), r the result of
\* parser: a None of f is an Error
map_opt(r, f(_)) ==
    IF ~IsOk(r) THEN r
    ELSE IF IsSome(f(r.out)) THEN Ok(r.rest, Unwrap(f(r.out)))
    ELSE ErrError

\* the result r with its output put after the outputs in outs
Pushed(outs, r) == IF IsOk(r) THEN Ok(r.rest, Append(outs, r.out)) ELSE r

\* the next parser of a tuple!, r the result of the parsers before it
then(r, second(_)) == IF IsOk(r) THEN Pushed(r.out, second(r.rest)) ELSE r

(***************************************************************************)
(* str::parse for the integer types (core::num from_str_radix, radix 10).  *)
(***************************************************************************)
AllDigits(s) == s # <<>> /\ \A k \in 1..Len(s) : IsDigit(s[k])

RECURSIVE DecimalValue(_)
DecimalValue(s) ==
    IF s = <<>> THEN 0
    ELSE 10 * DecimalValue(SubSeq(s, 1, Len(s) - 1)) + DigitVal(s[Len(s)])

\* "2021".parse::<i32>(): an optional '+' or '-', then digits
str_parse_i32(s) ==
    IF s # <<>> /\ Head(s) = "-"
    THEN (IF AllDigits(Tail(s)) THEN Some(0 - DecimalValue(Tail(s))) ELSE None)
    ELSE IF s # <<>> /\ Head(s) = "+"
    THEN (IF AllDigits(Tail(s)) THEN Some(DecimalValue(Tail(s))) ELSE None)
    ELSE IF AllDigits(s) THEN Some(DecimalValue(s))
    ELSE None

\* "02".parse::<u32>(): an optional '+', then digits
str_parse_u32(s) ==
    IF s # <<>> /\ Head(s) = "+"
    THEN (IF AllDigits(Tail(s)) THEN Some(DecimalValue(Tail(s))) ELSE None)
    ELSE IF AllDigits(s) THEN Some(DecimalValue(s))
    ELSE None

(***************************************************************************)
(* Dates.                                                                  *)
(***************************************************************************)
IsLeap(y) == (y % 4 = 0 /\ y % 100 # 0) \/ y % 400 = 0

DaysIn(y, m) ==
    IF m = 2 THEN (IF IsLeap(y) THEN 29 ELSE 28)
    ELSE IF m \in {4, 6, 9, 11} THEN 30
    ELSE 31

\* NaiveDate::from_ymd_opt, on the tuple ymd gives
from_ymd_opt(t) ==
    IF t[2] \in 1..12 /\ t[3] >= 1 /\ t[3] <= DaysIn(t[1], t[2])
    THEN Some([year |-> t[1], month |-> t[2], day |-> t[3]])
    ELSE None

dash(i) == char("-", i)

\* terminated!(flat_map!(take!(4), parse_to!(i32)), char!('-'))
year(i) == terminated(map_opt(take(4, i), str_parse_i32), dash)

\* terminated!(flat_map!(take!(2), parse_to!(u32)), char!('-'))
month(i) == terminated(map_opt(take(2, i), str_parse_u32), dash)

\* flat_map!(take!(2), parse_to!(u32))
day(i) == map_opt(take(2, i), str_parse_u32)

\* the ymd parser: tuple!(year, month, day)
ymd(i) == then(then(Pushed(<<>>, year(i)), month), day)

\* <NaiveDate as Parse>::parse: map_opt!(complete!(ymd), from_ymd_opt)
NaiveDate_parse(i) == map_opt(complete_m(ymd(i)), from_ymd_opt)

(***************************************************************************)
(* Priority.                                                               *)
(***************************************************************************)
\* the value parser: alt! over char!('A') .. char!('Z')
value(i) ==
    IF i = <<>> THEN ErrIncomplete
    ELSE IF Head(i) \in Priority THEN Ok(Tail(i), Head(i))
    ELSE ErrError

close(i) == char(")", i)

\* value, then char!(')')
value_close(i) == terminated(value(i), close)

\* <Priority as Parse>::parse: delimited!(char!('('), value, char!(')'))
Priority_parse(i) == preceded(char("(", i), value_close)

\* the derived Ord: compares the discriminants
cmp(p, q) ==
    IF Discriminant(p) < Discriminant(q) THEN "Less"
    ELSE IF Discriminant(p) = Discriminant(q) THEN "Equal"
    ELSE "Greater"

\* the hand-written PartialOrd
partial_cmp(p, q) ==
    IF Discriminant(p) = Discriminant(q) THEN Some("Equal")
    ELSE IF Discriminant(p) < Discriminant(q) THEN Some("Greater")
    ELSE Some("Less")

\* the operators <, <=, >, >= are PartialOrd's provided methods
lt(p, q) == partial_cmp(p, q) = Some("Less")
le(p, q) == partial_cmp(p, q) \in {Some("Less"), Some("Equal")}
gt(p, q) == partial_cmp(p, q) = Some("Greater")
ge(p, q) == partial_cmp(p, q) \in {Some("Greater"), Some("Equal")}

\* Ord's provided max and min, which go by cmp as sort does
max(p, q) == IF cmp(p, q) = "Greater" THEN p ELSE q
min(p, q) == IF cmp(p, q) = "Greater" THEN q ELSE p

(***************************************************************************)
(* State.                                                                  *)
(***************************************************************************)
Complete(dates) == [tag |-> "Complete", dates |-> dates]
Incomplete(p, date) == [tag |-> "Incomplete", priority |-> p, date |-> date]

\* terminated!(NaiveDate::parse, space)
date_space(i) == terminated(NaiveDate_parse(i), space)

\* the complete parser of State::parse:
\* terminated!(separated_pair!(NaiveDate::parse, space, NaiveDate::parse), space)
complete(i) == then(Pushed(<<>>, date_space(i)), date_space)

\* opt!(terminated!(Priority::parse, space))
opt_priority(i) == opt(terminated(Priority_parse(i), space), i)

\* opt!(terminated!(NaiveDate::parse, space))
opt_date(i) == opt(date_space(i), i)

\* the unknown parser of State::parse: a tuple! of the three options
unknown(i) == then(then(Pushed(<<>>, opt_priority(i)), opt_date), opt_date)

\* the closure State::parse maps the result of unknown with
unknown_state(result) ==
    IF result[1] = None /\ IsSome(result[2]) /\ IsSome(result[3])
    THEN Complete(Some(<<Unwrap(result[2]), Unwrap(result[3])>>))
    ELSE Incomplete(result[1], result[2])

\* Some(_) => map!(opt!(complete), State::Complete)
complete_state(i) == map(opt(complete(i), i), Complete)

\* None => map!(unknown, |result| ..)
incomplete_state(i) == map(unknown(i), unknown_state)

\* the arm switch! takes for the marker found (Some) or not found (None)
switch(marker) ==
    IF ~IsOk(marker) THEN marker
    ELSE IF IsSome(marker.out) THEN complete_state(marker.rest)
    ELSE incomplete_state(marker.rest)

\* <State as Parse>::parse: switch! on opt!(terminated!(char!('x'), space))
State_parse(i) == switch(opt(terminated(char("x", i), space), i))

(***************************************************************************)
(* Task.                                                                   *)
(***************************************************************************)
\* nom::rest
rest(i) == Ok(<<>>, i)

\* ws!(State::parse): sp, State::parse, sp
ws_state(i) == terminated(preceded(sp(i), State_parse), sp)

MakeTask(pair) == [state |-> pair[1], text |-> pair[2]]

\* <Task as Parse>::parse: pair!(ws!(State::parse), map!(nom::rest, Cow::Borrowed))
Task_parse(i) == map(then(Pushed(<<>>, ws_state(i)), rest), MakeTask)

\* result.ok().map(|(_, output)| output)
ok_output(result) == IF IsOk(result) THEN Some(result.out) ELSE None

\* parser::parse::<Task>: cfg!(debug) is false in every cargo build, so an
\* Err of any kind becomes None
parse(i) == ok_output(Task_parse(i))

\* completion_date with the Incomplete arm of creation_date
completion_date_of_incomplete(t) ==
    IF t.state.tag = "Complete"
    THEN (IF IsSome(t.state.dates) THEN Some(Unwrap(t.state.dates)[1]) ELSE None)
    ELSE t.state.date

completion_date(t) ==
    IF t.state.tag = "Complete"
    THEN (IF IsSome(t.state.dates) THEN Some(Unwrap(t.state.dates)[1]) ELSE None)
    ELSE None

creation_date(t) ==
    IF t.state.tag = "Complete"
    THEN (IF IsSome(t.state.dates) THEN Some(Unwrap(t.state.dates)[1]) ELSE None)
    ELSE t.state.date

description(t) == t.text

is_complete(t) == t.state.tag = "Complete"

priority(t) == IF t.state.tag = "Complete" THEN None ELSE t.state.priority

(***************************************************************************)
(* Tags.                                                                   *)
(***************************************************************************)
Context(start, end) == [type |-> "Context", start |-> start, end |-> end]
Project(start, end) == [type |-> "Project", start |-> start, end |-> end]
Special(start, end) == [type |-> "Special", start |-> start, end |-> end]

\* the byte offset CharIndices gives with the k-th character of d
\* (k = Len(d) + 1: the length of d in bytes)
RECURSIVE ByteIndex(_, _)
ByteIndex(d, k) == IF k <= 1 THEN 0 ELSE ByteIndex(d, k - 1) + Utf8Len(d[k - 1])

\* the position of the character that starts at byte b of d, looked for
\* from the k-th character on, which starts at byte off (Len(d) + 1 when b
\* is the length of d); 0 when no character starts at byte b
RECURSIVE CharAt(_, _, _, _)
CharAt(d, k, off, b) ==
    IF off = b THEN k
    ELSE IF off > b \/ k > Len(d) THEN 0
    ELSE CharAt(d, k + 1, off + Utf8Len(d[k]), b)

\* str::is_char_boundary
is_char_boundary(d, b) == CharAt(d, 1, 0, b) # 0

\* whether &d[start..end] is a slice; str's Index panics when it is not
CanSlice(d, start, end) ==
    start <= end /\ is_char_boundary(d, start) /\ is_char_boundary(d, end)

\* &d[start..end], the characters whose bytes lie in start..end
Slice(d, start, end) == SubSeq(d, CharAt(d, 1, 0, start), CharAt(d, 1, 0, end) - 1)

\* <str as Index<Tag>>::index
index(d, tag) == Slice(d, tag.start, tag.end)

\* the index of the first character of d after position pos that is
\* (white = TRUE) or is not (white = FALSE) whitespace; 0 when there is none
RECURSIVE FirstFrom(_, _, _)
FirstFrom(d, pos, white) ==
    IF pos >= Len(d) THEN 0
    ELSE IF char_is_whitespace(d[pos + 1]) = white THEN pos + 1
    ELSE FirstFrom(d, pos + 1, white)

\* next_word_boundary, on a CharIndices over d that has yielded pos
\* characters. skip_while yields the first character of the word, last()
\* runs take_while to the whitespace that ends the word (and consumes it).
next_word_boundary(d, pos) ==
    LET first == FirstFrom(d, pos, FALSE)
    IN  IF first = 0 THEN [bounds |-> None, iter |-> Len(d)]
        ELSE LET stop == FirstFrom(d, first, TRUE)
                 last == IF stop = 0 THEN Len(d) ELSE stop - 1
                 start == ByteIndex(d, first)
                 end == IF last = first THEN start ELSE ByteIndex(d, last) + 1
             IN  [bounds |-> Some(<<start, end>>),
                  iter |-> IF stop = 0 THEN Len(d) ELSE stop]

starts_with(word, c) == word # <<>> /\ Head(word) = c
contains(word, c) == \E k \in 1..Len(word) : word[k] = c

\* <Tags as Iterator>::next, with the calls it makes to itself
RECURSIVE Tags_next(_, _)
Tags_next(d, pos) ==
    LET b == next_word_boundary(d, pos)
    IN  IF b.bounds = None THEN [ret |-> None, iter |-> b.iter, panic |-> FALSE]
        ELSE LET start == Unwrap(b.bounds)[1]
                 end == Unwrap(b.bounds)[2]
             IN  IF ~CanSlice(d, start, end)
                 THEN [ret |-> None, iter |-> b.iter, panic |-> TRUE]
                 ELSE LET word == Slice(d, start, end)
                      IN  IF starts_with(word, "@")
                          THEN [ret |-> Some(Context(start, end)), iter |-> b.iter, panic |-> FALSE]
                          ELSE IF starts_with(word, "+")
                          THEN [ret |-> Some(Project(start, end)), iter |-> b.iter, panic |-> FALSE]
                          ELSE IF contains(word, ":")
                          THEN [ret |-> Some(Special(start, end)), iter |-> b.iter, panic |-> FALSE]
                          ELSE Tags_next(d, b.iter)

\* self.tags().collect(): next until None
RECURSIVE collect(_, _, _)
collect(d, pos, acc) ==
    LET r == Tags_next(d, pos)
    IN  IF r.panic THEN [tags |-> acc, panic |-> TRUE]
        ELSE IF r.ret = None THEN [tags |-> acc, panic |-> FALSE]
        ELSE collect(d, r.iter, Append(acc, Unwrap(r.ret)))

(***************************************************************************)
(* The line iterator.                                                      *)
(***************************************************************************)
\* str::trim
RECURSIVE trim_start(_)
trim_start(l) ==
    IF l # <<>> /\ char_is_whitespace(Head(l)) THEN trim_start(Tail(l)) ELSE l

RECURSIVE trim_end(_)
trim_end(l) ==
    IF l # <<>> /\ char_is_whitespace(l[Len(l)])
    THEN trim_end(SubSeq(l, 1, Len(l) - 1))
    ELSE l

trim(l) == trim_end(trim_start(l))

\* str::lines: the pieces between line feeds, each without its final
\* carriage return, and no piece for what follows a final line feed
RECURSIVE Lines(_)
Lines(t) ==
    IF t = <<>> THEN <<>>
    ELSE LET k == IF \E j \in 1..Len(t) : t[j] = "\n"
                  THEN CHOOSE j \in 1..Len(t) :
                           t[j] = "\n" /\ \A h \in 1..(j - 1) : t[h] # "\n"
                  ELSE Len(t) + 1
             piece == SubSeq(t, 1, k - 1)
             l == IF piece # <<>> /\ piece[Len(piece)] = "\r"
                  THEN SubSeq(piece, 1, Len(piece) - 1)
                  ELSE piece
         IN  <<l>> \o Lines(SubSeq(t, k + 1, Len(t)))

\* <Iter as Iterator>::next, with the calls it makes to itself
RECURSIVE Iter_next(_)
Iter_next(ls) ==
    IF ls = <<>> THEN [ret |-> None, lines |-> ls]
    ELSE LET l == trim(Head(ls))
         IN  IF l = <<>> THEN Iter_next(Tail(ls))
             ELSE [ret |-> parse(l), lines |-> Tail(ls)]

\* <Iter as DoubleEndedIterator>::next_back, with the calls it makes to itself
RECURSIVE Iter_next_back(_)
Iter_next_back(ls) ==
    IF ls = <<>> THEN [ret |-> None, lines |-> ls]
    ELSE LET l == trim(ls[Len(ls)])
             front == SubSeq(ls, 1, Len(ls) - 1)
         IN  IF l = <<>> THEN Iter_next_back(front)
             ELSE [ret |-> parse(l), lines |-> front]

(***************************************************************************)
(* Inputs.                                                                 *)
(***************************************************************************)
SeqsUpTo(S, n) == UNION {[1..k -> S] : k \in 1..n}

RECURSIVE Join(_, _)
Join(parts, sep) ==
    IF Len(parts) = 1 THEN parts[1]
    ELSE parts[1] \o sep \o Join(Tail(parts), sep)

\* the words lines are made of: the marker, a priority, two dates, a day
\* that does not exist, two date-like words with a sign in them, a word
Tokens ==
    { <<"x">>,
      <<"(", "A", ")">>,
      <<"2", "0", "2", "1", "-", "0", "2", "-", "0", "2">>,
      <<"2", "0", "2", "1", "-", "0", "2", "-", "0", "1">>,
      <<"2", "0", "2", "3", "-", "0", "2", "-", "3", "0">>,
      <<"+", "2", "0", "2", "-", "0", "1", "-", "0", "1">>,
      <<"2", "0", "2", "1", "-", "+", "1", "-", "+", "1">>,
      <<"f", "o", "o">> }

\* trimmed, non-empty lines: up to MaxTokens words, one space between two
LineInputs == {Join(ts, <<" ">>) : ts \in SeqsUpTo(Tokens, MaxTokens)}

\* the lines texts are made of: two tasks (one with spaces around it), a
\* lone marker, an empty line, a line of whitespace
LineVocab ==
    { <<"a">>, <<" ", "b", " ">>, <<"x">>, <<>>, <<" ", "\t">> }

Texts == {Join(ls, <<"\n">>) : ls \in SeqsUpTo(LineVocab, MaxLines)}

\* the words descriptions are made of
WordVocab ==
    { <<"@">>, <<"+">>, <<":">>, <<"a">>,
      <<"@", "a">>, <<"+", "a">>, <<"a", ":", "b">>, <<"@", "a", ":", "b">>,
      <<"@", EAcute>>, <<EAcute, "a">> }

Descriptions == {Join(ws, <<" ">>) : ws \in SeqsUpTo(WordVocab, MaxWords)}

(***************************************************************************)
(* The line iterator over a text.                                          *)
(***************************************************************************)
IdleIter == text = <<>> /\ lines = <<>> /\ calls = <<>> /\ prev = <<>> /\ runs = 0
IdleTask == line = <<>> /\ task = None /\ view = None /\ pc = "idle"
IdleTags == data = <<>> /\ iter = 0 /\ found = <<>> /\ status = "idle"
IdleOrd == lhs = "A" /\ rhs = "A" /\ ord = None
IdlePar == pieces = {} /\ sink = EmptyBag

iterVars == <<text, lines, calls, prev, runs>>
taskVars == <<line, task, view, pc>>
tagsVars == <<data, iter, found, status>>
ordVars == <<lhs, rhs, ord>>
parVars == <<pieces, sink>>

\* a text, and text.tasks() called on it
Init ==
    /\ text \in Texts
    /\ lines = Lines(text)
    /\ calls = <<>>
    /\ prev = <<>>
    /\ runs = 1
    /\ IdleTask /\ IdleTags /\ IdleOrd /\ IdlePar

\* <str as Input>::tasks, called again on the same text
tasks ==
    /\ runs >= 1
    /\ runs < MaxRuns
    /\ lines' = Lines(text)
    /\ prev' = calls
    /\ calls' = <<>>
    /\ runs' = runs + 1
    /\ UNCHANGED <<text, taskVars, tagsVars, ordVars, parVars>>

\* Iter::next
next ==
    /\ runs >= 1
    /\ Len(calls) < MaxCalls
    /\ LET r == Iter_next(lines)
       IN  /\ lines' = r.lines
           /\ calls' = Append(calls, [op |-> "next", ret |-> r.ret])
    /\ UNCHANGED <<text, prev, runs, taskVars, tagsVars, ordVars, parVars>>

\* Iter::next_back
next_back ==
    /\ runs >= 1
    /\ Len(calls) < MaxCalls
    /\ LET r == Iter_next_back(lines)
       IN  /\ lines' = r.lines
           /\ calls' = Append(calls, [op |-> "next_back", ret |-> r.ret])
    /\ UNCHANGED <<text, prev, runs, taskVars, tagsVars, ordVars, parVars>>

Next == tasks \/ next \/ next_back

Spec == Init /\ [][Next]_vars

(***************************************************************************)
(* One line: parse::<Task>, then the accessors.                            *)
(***************************************************************************)
InitTask ==
    /\ line \in LineInputs
    /\ task = None
    /\ view = None
    /\ pc = "start"
    /\ IdleIter /\ IdleTags /\ IdleOrd /\ IdlePar

\* parse::<Task>(line), as Iter::next calls it
Parse ==
    /\ pc = "start"
    /\ task' = parse(line)
    /\ pc' = "parsed"
    /\ UNCHANGED <<line, view, iterVars, tagsVars, ordVars, parVars>>

\* <Task as Debug>::fmt: every accessor, and the tags collected
fmt ==
    /\ pc = "parsed"
    /\ IsSome(task)
    /\ LET t == Unwrap(task)
           c == collect(description(t), 0, <<>>)
       IN  IF c.panic
           THEN view' = None /\ pc' = "panicked"
           ELSE /\ view' = Some([completion_date |-> completion_date(t),
                                 creation_date |-> creation_date(t),
                                 description |-> description(t),
                                 is_complete |-> is_complete(t),
                                 priority |-> priority(t),
                                 tags |-> c.tags])
                /\ pc' = "viewed"
    /\ UNCHANGED <<line, task, iterVars, tagsVars, ordVars, parVars>>

NextTask == Parse \/ fmt

SpecTask == InitTask /\ [][NextTask]_vars

(***************************************************************************)
(* The tags of one description.                                            *)
(***************************************************************************)
\* Task::tags on a task with description data
InitTags ==
    /\ data \in Descriptions
    /\ iter = 0
    /\ found = <<>>
    /\ status = "scanning"
    /\ IdleIter /\ IdleTask /\ IdleOrd /\ IdlePar

\* Tags::next
TagsNext ==
    /\ status \in {"scanning", "done"}
    /\ LET r == Tags_next(data, iter)
       IN  /\ iter' = r.iter
           /\ found' = IF IsSome(r.ret) THEN Append(found, Unwrap(r.ret)) ELSE found
           /\ status' = IF r.panic THEN "panicked"
                        ELSE IF IsSome(r.ret) THEN "scanning"
                        ELSE "done"
    /\ UNCHANGED <<data, iterVars, taskVars, ordVars, parVars>>

NextTags == TagsNext

SpecTags == InitTags /\ [][NextTags]_vars

(***************************************************************************)
(* Two priorities compared.                                                *)
(***************************************************************************)
InitOrd ==
    /\ lhs \in Priority
    /\ rhs \in Priority
    /\ ord = None
    /\ IdleIter /\ IdleTask /\ IdleTags /\ IdlePar

\* every comparison Priority offers, on lhs and rhs
Compare ==
    /\ ord = None
    /\ ord' = Some([eq |-> lhs = rhs,
                    partial_cmp |-> partial_cmp(lhs, rhs),
                    cmp |-> cmp(lhs, rhs),
                    lt |-> lt(lhs, rhs),
                    le |-> le(lhs, rhs),
                    gt |-> gt(lhs, rhs),
                    ge |-> ge(lhs, rhs),
                    max |-> max(lhs, rhs),
                    min |-> min(lhs, rhs)])
    /\ UNCHANGED <<lhs, rhs, iterVars, taskVars, tagsVars, parVars>>

NextOrd == Compare

SpecOrd == InitOrd /\ [][NextOrd]_vars

(***************************************************************************)
(* The parallel iterator over a text, next to the sequential one.          *)
(***************************************************************************)
\* what one line gives the consumer:
\* map(str::trim), filter(|line| !line.is_empty()), filter_map(parse)
par_item(l) ==
    IF trim(l) = <<>> THEN None ELSE parse(trim(l))

\* a text, text.tasks() and text.par_tasks() called on it: a piece <<lo, hi>>
\* is the run of lines lo..hi of the text
InitPar ==
    /\ text \in Texts
    /\ lines = Lines(text)
    /\ calls = <<>>
    /\ prev = <<>>
    /\ runs = 1
    /\ pieces = IF Lines(text) = <<>> THEN {} ELSE {<<1, Len(Lines(text))>>}
    /\ sink = EmptyBag
    /\ IdleTask /\ IdleTags /\ IdleOrd

\* a piece is split at a line feed, one half for another worker
split ==
    /\ \E pc0 \in pieces : \E mid \in pc0[1]..(pc0[2] - 1) :
           pieces' = (pieces \ {pc0}) \cup {<<pc0[1], mid>>, <<mid + 1, pc0[2]>>}
    /\ UNCHANGED <<sink, iterVars, taskVars, tagsVars, ordVars>>

\* a worker takes the next line of its piece through drive_unindexed
drive_unindexed ==
    /\ \E pc0 \in pieces :
           LET item == par_item(Lines(text)[pc0[1]])
           IN  /\ pieces' = IF pc0[1] = pc0[2]
                            THEN pieces \ {pc0}
                            ELSE (pieces \ {pc0}) \cup {<<pc0[1] + 1, pc0[2]>>}
               /\ sink' = IF IsSome(item)
                          THEN sink (+) SetToBag({Unwrap(item)})
                          ELSE sink
    /\ UNCHANGED <<iterVars, taskVars, tagsVars, ordVars>>

NextPar == split \/ drive_unindexed \/ next

SpecPar == InitPar /\ [][NextPar]_vars

(***************************************************************************)
(* What the properties below are stated with.                              *)
(***************************************************************************)
Reverse(q) == [k \in 1..Len(q) |-> q[Len(q) + 1 - k]]

\* the words of l: the runs of characters that are not whitespace
RECURSIVE Words(_)
Words(l) ==
    LET first == FirstFrom(l, 0, FALSE)
        stop == IF first = 0 THEN 0 ELSE FirstFrom(l, first, TRUE)
    IN  IF first = 0 THEN <<>>
        ELSE IF stop = 0 THEN <<SubSeq(l, first, Len(l))>>
        ELSE <<SubSeq(l, first, stop - 1)>> \o Words(SubSeq(l, stop, Len(l)))

\* the spans <<first, last>> of the words of d after position pos
RECURSIVE WordSpans(_, _)
WordSpans(d, pos) ==
    LET first == FirstFrom(d, pos, FALSE)
        stop == IF first = 0 THEN 0 ELSE FirstFrom(d, first, TRUE)
    IN  IF first = 0 THEN <<>>
        ELSE IF stop = 0 THEN <<<<first, Len(d)>>>>
        ELSE <<<<first, stop - 1>>>> \o WordSpans(d, stop)

IsSuffix(q, l) == Len(q) <= Len(l) /\ SubSeq(l, Len(l) - Len(q) + 1, Len(l)) = q

NonBlank(ls) == SelectSeq(ls, LAMBDA l : trim(l) # <<>>)

Rets(cs) == [k \in 1..Len(cs) |-> cs[k].ret]

\* the tasks a run of calls gave, in the order it gave them
Yielded(cs) == [k \in 1..Len(SelectSeq(Rets(cs), IsSome)) |->
                   Unwrap(SelectSeq(Rets(cs), IsSome)[k])]

\* cs is one method called until it returned None
DrainedBy(cs, op) ==
    /\ cs # <<>>
    /\ \A k \in 1..Len(cs) : cs[k].op = op
    /\ cs[Len(cs)].ret = None
    /\ \A k \in 1..(Len(cs) - 1) : IsSome(cs[k].ret)

IsPriorityWord(w) == Len(w) = 3 /\ w[1] = "(" /\ w[2] \in Priority /\ w[3] = ")"

\* four digits, '-', two digits, '-', two digits, and a day that exists
IsGrammarDate(w) ==
    /\ Len(w) = 10
    /\ \A k \in {1, 2, 3, 4, 6, 7, 9, 10} : IsDigit(w[k])
    /\ w[5] = "-" /\ w[8] = "-"
    /\ LET y == DecimalValue(SubSeq(w, 1, 4))
           m == DecimalValue(SubSeq(w, 6, 7))
           d == DecimalValue(SubSeq(w, 9, 10))
       IN  m \in 1..12 /\ d \in 1..DaysIn(y, m)

\* the word w is, whole, what NaiveDate::parse takes for a date
IsParsedDate(w) == IsOk(NaiveDate_parse(w)) /\ NaiveDate_parse(w).rest = <<>>
ParsedDate(w) == NaiveDate_parse(w).out

\* the line starts with 'x' and whitespace
HasMarker(l) == Len(l) >= 2 /\ l[1] = "x" /\ l[2] \in {" ", "\t"}

Parsed == pc \in {"parsed", "viewed"}

(***************************************************************************)
(* C1. Forward iteration gives one task for each line that is not blank,   *)
(* in the order of the lines, and None only after the last of them: the    *)
(* k-th call of next returns a task of the k-th non-blank line.            *)
(***************************************************************************)
C1_OneTaskPerNonBlankLine ==
    (runs >= 1 /\ \A k \in 1..Len(calls) : calls[k].op = "next") =>
        \A k \in 1..Len(calls) :
            IF k <= Len(NonBlank(Lines(text)))
            THEN /\ IsSome(calls[k].ret)
                 /\ IsSuffix(Unwrap(calls[k].ret).text, trim(NonBlank(Lines(text))[k]))
            ELSE calls[k].ret = None

(***************************************************************************)
(* C2. completion_date() is the first date and creation_date() the second  *)
(* date of Complete(Some((d1, d2))); both are None for Complete(None);     *)
(* creation_date() is d for Incomplete(_, d).                              *)
(***************************************************************************)
C2_DatesOfState ==
    pc = "viewed" =>
        LET st == Unwrap(task).state
            v == Unwrap(view)
        IN  IF st.tag = "Complete" /\ IsSome(st.dates)
            THEN /\ v.completion_date = Some(Unwrap(st.dates)[1])
                 /\ v.creation_date = Some(Unwrap(st.dates)[2])
            ELSE IF st.tag = "Complete"
            THEN v.completion_date = None /\ v.creation_date = None
            ELSE v.creation_date = st.date

(***************************************************************************)
(* C3. Every comparison of two priorities ranks the earlier letter as the  *)
(* greater: partial_cmp and the operators, and cmp with max and min; the   *)
(* two are equal exactly when the letters are; partial_cmp is Some(cmp).   *)
(***************************************************************************)
InverseAlphabetical(p, q) ==
    IF p = q THEN "Equal"
    ELSE IF Discriminant(p) < Discriminant(q) THEN "Greater"
    ELSE "Less"

C3_InverseAlphabeticalOrder ==
    IsSome(ord) =>
        LET o == Unwrap(ord)
            want == InverseAlphabetical(lhs, rhs)
        IN  /\ o.eq = (want = "Equal")
            /\ o.partial_cmp = Some(want)
            /\ o.lt = (want = "Less")
            /\ o.gt = (want = "Greater")
            /\ o.le = (want # "Greater")
            /\ o.ge = (want # "Less")
            /\ o.cmp = want
            /\ o.partial_cmp = Some(o.cmp)
            /\ o.max = (IF want = "Less" THEN rhs ELSE lhs)
            /\ o.min = (IF want = "Less" THEN lhs ELSE rhs)

(***************************************************************************)
(* C4. Scanning a description for tags does not fail, and every tag has    *)
(* start <= end, both of them character boundaries of the description,     *)
(* and indexes a whole word of it.                                         *)
(***************************************************************************)
IsWholeWord(d, start, end) ==
    \E k \in 1..Len(WordSpans(d, 0)) :
        /\ ByteIndex(d, WordSpans(d, 0)[k][1]) = start
        /\ ByteIndex(d, WordSpans(d, 0)[k][2] + 1) = end

C4_TagsAreWholeWords ==
    /\ status # "panicked"
    /\ \A k \in 1..Len(found) :
           /\ found[k].start <= found[k].end
           /\ found[k].end <= ByteIndex(data, Len(data) + 1)
           /\ is_char_boundary(data, found[k].start)
           /\ is_char_boundary(data, found[k].end)
           /\ IsWholeWord(data, found[k].start, found[k].end)
           /\ index(data, found[k]) # <<>>

(***************************************************************************)
(* C5. The tags of a description are its words classified from left to     *)
(* right: Context for a word that starts with '@', else Project for one    *)
(* that starts with '+', else Special for one that holds ':', else no tag; *)
(* each spans its whole word, whatever the length of the word.             *)
(***************************************************************************)
Classified(d, span) ==
    LET w == SubSeq(d, span[1], span[2])
        start == ByteIndex(d, span[1])
        end == ByteIndex(d, span[2] + 1)
    IN  IF Head(w) = "@" THEN <<Context(start, end)>>
        ELSE IF Head(w) = "+" THEN <<Project(start, end)>>
        ELSE IF \E k \in 1..Len(w) : w[k] = ":" THEN <<Special(start, end)>>
        ELSE <<>>

RECURSIVE ClassifiedAll(_, _)
ClassifiedAll(d, spans) ==
    IF spans = <<>> THEN <<>>
    ELSE Classified(d, Head(spans)) \o ClassifiedAll(d, Tail(spans))

C5_EveryWordClassified ==
    status = "done" => found = ClassifiedAll(data, WordSpans(data, 0))

(***************************************************************************)
(* C6. A task of a line without the marker: after the optional priority,   *)
(* two dates, each followed by whitespace, make it Complete(Some((first,   *)
(* second))), with or without a priority before them; one date or none     *)
(* make it Incomplete(priority, the date if there is one). A date is what  *)
(* NaiveDate::parse takes for one (C8 is about which words those are), and *)
(* the property is about the lines that give a task (C1 is about them).    *)
(***************************************************************************)
AfterPriority(ws) ==
    IF Len(ws) > 1 /\ IsPriorityWord(ws[1]) THEN Tail(ws) ELSE ws

PriorityOf(ws) ==
    IF Len(ws) > 1 /\ IsPriorityWord(ws[1]) THEN Some(ws[1][2]) ELSE None

\* how many of the first two words of ws are dates followed by whitespace
DatesFound(ws) ==
    IF Len(ws) > 1 /\ IsParsedDate(ws[1])
    THEN (IF Len(ws) > 2 /\ IsParsedDate(ws[2]) THEN 2 ELSE 1)
    ELSE 0

StateWithoutMarker(ws) ==
    IF DatesFound(AfterPriority(ws)) = 2
    THEN Complete(Some(<<ParsedDate(AfterPriority(ws)[1]), ParsedDate(AfterPriority(ws)[2])>>))
    ELSE Incomplete(PriorityOf(ws),
                    IF DatesFound(AfterPriority(ws)) = 1
                    THEN Some(ParsedDate(AfterPriority(ws)[1]))
                    ELSE None)

C6_TwoDatesMakeComplete ==
    (Parsed /\ ~HasMarker(line) /\ IsSome(task)) =>
        Unwrap(task).state = StateWithoutMarker(Words(line))

(***************************************************************************)
(* C7. A line with the marker gives a task that is Complete(Some((d1,      *)
(* d2))) exactly when two dates, each followed by whitespace, come next,   *)
(* and otherwise Complete(None) with all of the line after the marker as   *)
(* its description. A date is what NaiveDate::parse takes for one.         *)
(***************************************************************************)
AfterMarker(l) == trim_start(Tail(l))

C7_MarkerLineIsComplete ==
    (Parsed /\ HasMarker(line)) =>
        /\ IsSome(task)
        /\ IF DatesFound(Tail(Words(line))) = 2
           THEN Unwrap(task).state =
                    Complete(Some(<<ParsedDate(Words(line)[2]), ParsedDate(Words(line)[3])>>))
           ELSE /\ Unwrap(task).state = Complete(None)
                /\ Unwrap(task).text = AfterMarker(line)

(***************************************************************************)
(* C8. Only a word of the grammar's shape, DIGIT{4} "-" DIGIT{2} "-"       *)
(* DIGIT{2}, that names a day that exists is taken for a date: the words   *)
(* of a line that are not in the description of its task are the marker,   *)
(* a priority or such words; any other word stays in the description.      *)
(***************************************************************************)
C8_OnlyGrammarDatesAreTaken ==
    (Parsed /\ IsSome(task)) =>
        \A k \in 1..(Len(Words(line)) - Len(Words(Unwrap(task).text))) :
            \/ k = 1 /\ Words(line)[k] = <<"x">>
            \/ k = 1 /\ IsPriorityWord(Words(line)[k])
            \/ IsGrammarDate(Words(line)[k])

(***************************************************************************)
(* C9. Of every parsed task, priority() is None when the state is          *)
(* Complete, completion_date() is None when the state is Incomplete, and   *)
(* is_complete() is true exactly when the state is Complete.               *)
(***************************************************************************)
C9_AccessorsRespectState ==
    pc = "viewed" =>
        LET st == Unwrap(task).state
            v == Unwrap(view)
        IN  /\ st.tag = "Complete" => v.priority = None
            /\ st.tag = "Incomplete" => v.completion_date = None
            /\ v.is_complete = (st.tag = "Complete")

\* the accessors of an incomplete task with a priority and a date were read
C9_Witness ==
    /\ pc = "viewed"
    /\ Unwrap(task).state.tag = "Incomplete"
    /\ IsSome(Unwrap(task).state.priority)
    /\ IsSome(Unwrap(task).state.date)
    /\ Unwrap(view).completion_date = None
    /\ Unwrap(view).is_complete = FALSE

(***************************************************************************)
(* C10. The tasks next_back() gives until it returns None are the tasks    *)
(* next() gives until it returns None on a fresh iterator over the same    *)
(* text, in the reverse order.                                             *)
(***************************************************************************)
C10_BackwardIsReverseOfForward ==
    (DrainedBy(prev, "next") /\ DrainedBy(calls, "next_back")) =>
        Yielded(calls) = Reverse(Yielded(prev))

\* the bag of the elements of a sequence
RECURSIVE BagOfSeq(_)
BagOfSeq(q) ==
    IF q = <<>> THEN EmptyBag ELSE SetToBag({Head(q)}) (+) BagOfSeq(Tail(q))

(***************************************************************************)
(* C11. When the workers of par_tasks() have done every line, the tasks    *)
(* they gave the consumer are, as a multiset, the tasks next() gives on    *)
(* tasks() of the same text until it returns None.                         *)
(***************************************************************************)
C11_ParallelSameMultiset ==
    (pieces = {} /\ DrainedBy(calls, "next")) =>
        sink = BagOfSeq(Yielded(calls))

(***************************************************************************)
(* C12. The iterator is fused: after a call of next() or next_back() has   *)
(* returned None, every later call on the same iterator returns None, and  *)
(* a call returns None only when no line is left to consume.               *)
(***************************************************************************)
C12_FusedIterator ==
    /\ \A j \in 1..Len(calls) : \A k \in j..Len(calls) :
           calls[j].ret = None => calls[k].ret = None
    /\ (calls # <<>> /\ calls[Len(calls)].ret = None) => lines = <<>>

====
